---- MODULE Spec2Model ----
(***************************************************************************)
(* MeetingMinds: MeetingPipeline.run, DiarizedTranscriptBuilder.merge and   *)
(* Cleaner.clean_diarized_transcript.                                       *)
(*                                                                          *)
(* A string is a sequence of one-character strings, so that " ".join,       *)
(* lower(), the two re.sub calls, strip() and split() are computed          *)
(* character by character.  Times are integers 0..MaxTime (seconds).        *)
(***************************************************************************)
EXTENDS Integers, Sequences, FiniteSets, TLC

\* ------------------------------------------------------------------ bounds
MaxTime == 2
MaxTranscriptSegments == 2
MaxSpeakerSegments == 2

Times == 0..MaxTime

\* ----------------------------------------------------- inputs of the model
\* Texts a transcription backend may put in a segment (after strip()).
Texts ==
  { <<>>, <<"H", "i", "!">>, <<"i", "s", " ", "y">> }

\* Texts a transcription backend may return as the full text.
FullTexts ==
  { <<>>, <<"H", "i", "!", " ", "i", "s", " ", "y">> }

\* Labels a diarization backend may give a turn.
Speakers == { "A", "B" }

\* Values langdetect's detect may return; NoneLang is Python's None.
NoneLang == "None"

Languages == { "en", "es", NoneLang }

\* ------------------------------------------------------------------- state
VARIABLES
  pc,                          \* position in MeetingPipeline.run
  transcript,                  \* run: transcript
  diarization_result,          \* run: diarization_result
  turn,                        \* merge: speaker segments iterated so far
  texts,                       \* merge: texts of the last iteration
  diarized_segments,           \* merge: diarized_segments
  diarized_transcript,         \* run: diarized_transcript
  detected_language,           \* run: detected_language
  cleaned_diarized_transcript, \* run: cleaned_diarized_transcript
  results                      \* the dict run returns

vars ==
  <<pc, transcript, diarization_result, turn, texts, diarized_segments,
    diarized_transcript, detected_language, cleaned_diarized_transcript,
    results>>

\* -------------------------------------------------------------- data model
TranscriptSegment == [start : Times, end : Times, text : Texts]

\* SpeakerSegment.text as the diarization backend leaves it (Python's None).
NoneText == "None"

SpeakerSegment ==
  [start : Times, end : Times, speaker : Speakers, text : { NoneText }]

SeqsUpTo(S, n) == UNION { [1..k -> S] : k \in 0..n }

Transcript ==
  [segments : SeqsUpTo(TranscriptSegment, MaxTranscriptSegments),
   full_text : FullTexts]

DiarizationResult ==
  [segments : SeqsUpTo(SpeakerSegment, MaxSpeakerSegments)]

DiarizedSegment(start, end, speaker, text) ==
  [start |-> start, end |-> end, speaker |-> speaker, text |-> text]

DiarizedTranscript(segments, full_text) ==
  [segments |-> segments, full_text |-> full_text]

\* The value of a local of run that is not bound yet.
Unbound == DiarizedTranscript(<<>>, <<>>)

\* ------------------------------------------------------------ str helpers
\* join that drops the separator ("".join(parts)).
RECURSIVE JoinNoSeparator(_, _)
JoinNoSeparator(sep, parts) ==
  IF Len(parts) = 0 THEN <<>>
  ELSE parts[1] \o JoinNoSeparator(sep, Tail(parts))

\* sep.join(parts)
RECURSIVE Join(_, _)
Join(sep, parts) ==
  IF Len(parts) = 0 THEN <<>>
  ELSE IF Len(parts) = 1 THEN parts[1]
  ELSE parts[1] \o sep \o Join(sep, Tail(parts))

Space == <<" ">>

Whitespace == { " ", "\t", "\n" }

UpperToLower ==
  [c \in { "A", "B", "C", "D", "E", "F", "G", "H", "I", "J", "K", "L", "M",
           "N", "O", "P", "Q", "R", "S", "T", "U", "V", "W", "X", "Y", "Z" } |->
     CASE c = "A" -> "a" [] c = "B" -> "b" [] c = "C" -> "c" [] c = "D" -> "d"
       [] c = "E" -> "e" [] c = "F" -> "f" [] c = "G" -> "g" [] c = "H" -> "h"
       [] c = "I" -> "i" [] c = "J" -> "j" [] c = "K" -> "k" [] c = "L" -> "l"
       [] c = "M" -> "m" [] c = "N" -> "n" [] c = "O" -> "o" [] c = "P" -> "p"
       [] c = "Q" -> "q" [] c = "R" -> "r" [] c = "S" -> "s" [] c = "T" -> "t"
       [] c = "U" -> "u" [] c = "V" -> "v" [] c = "W" -> "w" [] c = "X" -> "x"
       [] c = "Y" -> "y" [] c = "Z" -> "z"]

\* text.lower()
Lower(text) ==
  [i \in 1..Len(text) |->
     IF text[i] \in DOMAIN UpperToLower THEN UpperToLower[text[i]] ELSE text[i]]

\* \w of the lowered text, and the letters the pattern names.
WordChars ==
  { "a", "b", "c", "d", "e", "f", "g", "h", "i", "j", "k", "l", "m", "n", "o",
    "p", "q", "r", "s", "t", "u", "v", "w", "x", "y", "z", "0", "1", "2", "3",
    "4", "5", "6", "7", "8", "9", "_", "á", "é", "í", "ó", "ú", "ü", "ñ" }

\* re.sub(r"[^\w\sáéíóúüñ]", "", text)
RemoveSymbols(text) ==
  SelectSeq(text, LAMBDA c : c \in WordChars \/ c \in Whitespace)

\* re.sub(r"\s+", " ", text)
RECURSIVE CollapseWhitespace(_)
CollapseWhitespace(text) ==
  IF Len(text) = 0 THEN <<>>
  ELSE IF Head(text) \in Whitespace
       THEN IF Len(text) > 1 /\ text[2] \in Whitespace
            THEN CollapseWhitespace(Tail(text))
            ELSE Space \o CollapseWhitespace(Tail(text))
       ELSE <<Head(text)>> \o CollapseWhitespace(Tail(text))

\* text.strip()
RECURSIVE Strip(_)
Strip(text) ==
  IF Len(text) = 0 THEN <<>>
  ELSE IF Head(text) \in Whitespace THEN Strip(Tail(text))
  ELSE IF text[Len(text)] \in Whitespace
       THEN Strip(SubSeq(text, 1, Len(text) - 1))
  ELSE text

\* text.split()
RECURSIVE SplitFrom(_, _)
SplitFrom(text, word) ==
  IF Len(text) = 0
  THEN IF Len(word) = 0 THEN <<>> ELSE <<word>>
  ELSE IF Head(text) \in Whitespace
       THEN IF Len(word) = 0 THEN SplitFrom(Tail(text), <<>>)
            ELSE <<word>> \o SplitFrom(Tail(text), <<>>)
       ELSE SplitFrom(Tail(text), Append(word, Head(text)))

Split(text) == SplitFrom(text, <<>>)

\* ----------------------------------------------------------------- Cleaner
SpanishStopwords ==
  { <<"e", "l">>, <<"l", "a">>, <<"l", "o", "s">>, <<"l", "a", "s">>, <<"u", "n">>,
    <<"u", "n", "a">>, <<"u", "n", "o", "s">>, <<"u", "n", "a", "s">>, <<"d", "e">>,
    <<"d", "e", "l">>, <<"a">>, <<"y">>, <<"e", "n">>, <<"q", "u", "e">>,
    <<"c", "o", "n">>, <<"p", "o", "r">>, <<"p", "a", "r", "a">>, <<"e", "s">>,
    <<"a", "l">>, <<"l", "o">>, <<"c", "o", "m", "o">>, <<"m", "á", "s">>,
    <<"p", "e", "r", "o">>, <<"s", "u", "s">>, <<"l", "e">>, <<"y", "a">>, <<"o">>,
    <<"s", "í">>, <<"n", "o">>, <<"s", "e">>, <<"h", "a">>, <<"m", "e">>,
    <<"m", "i">>, <<"t", "e">>, <<"t", "u">>, <<"s", "u">>, <<"y", "o">>,
    <<"é", "l">>, <<"e", "l", "l", "a">>, <<"n", "o", "s">>,
    <<"v", "o", "s", "o", "t", "r", "o", "s">>, <<"e", "l", "l", "o", "s">>,
    <<"e", "l", "l", "a", "s">>, <<"e", "s", "t", "e">>, <<"e", "s", "t", "a">>,
    <<"e", "s", "t", "o", "s">>, <<"e", "s", "t", "a", "s">>, <<"e", "s", "o">>,
    <<"e", "s", "a">>, <<"e", "s", "o", "s">>, <<"e", "s", "a", "s">>,
    <<"a", "q", "u", "í">>, <<"a", "l", "l", "í">>, <<"m", "u", "y">>,
    <<"t", "a", "m", "b", "i", "é", "n">>, <<"p", "o", "r", "q", "u", "e">>,
    <<"c", "u", "a", "n", "d", "o">>, <<"d", "o", "n", "d", "e">>,
    <<"d", "e", "s", "d", "e">>, <<"h", "a", "s", "t", "a">>,
    <<"e", "n", "t", "r", "e">>, <<"s", "o", "b", "r", "e">>, <<"s", "i", "n">>,
    <<"t", "r", "a", "s">>, <<"d", "u", "r", "a", "n", "t", "e">>,
    <<"a", "n", "t", "e", "s">>, <<"d", "e", "s", "p", "u", "é", "s">>,
    <<"t", "o", "d", "o">>, <<"t", "o", "d", "o", "s">>, <<"t", "o", "d", "a", "s">>,
    <<"c", "a", "d", "a">>, <<"c", "u", "a", "l">>, <<"c", "u", "a", "l", "e", "s">>,
    <<"q", "u", "i", "e", "n">>, <<"q", "u", "i", "e", "n", "e", "s">>,
    <<"c", "u", "y", "o">>, <<"c", "u", "y", "o", "s">>, <<"c", "u", "y", "a", "s">>,
    <<"q", "u", "é">>, <<"c", "ó", "m", "o">>, <<"c", "u", "á", "n", "d", "o">>,
    <<"c", "u", "á", "n", "t", "o">>, <<"c", "u", "á", "n", "t", "o", "s">>,
    <<"c", "u", "á", "n", "t", "a", "s">>, <<"d", "ó", "n", "d", "e">>,
    <<"a", "d", "ó", "n", "d", "e">>, <<"p", "o", "r", "q", "u", "é">>,
    <<"p", "a", "r", "a", " ", "q", "u", "é">>, <<"p", "u", "e", "s">>,
    <<"e", "n", "t", "o", "n", "c", "e", "s">>, <<"a", "h", "o", "r", "a">>,
    <<"b", "i", "e", "n">>, <<"m", "a", "l">>, <<"a", "u", "n">>,
    <<"a", "u", "n", "q", "u", "e">>, <<"a", "d", "e", "m", "á", "s">>,
    <<"i", "n", "c", "l", "u", "s", "o">>, <<"s", "i", "n", "o">>, <<"y", "a">>,
    <<"t", "o", "d", "a", "v", "í", "a">>, <<"a", "ú", "n">>,
    <<"q", "u", "i", "z", "á">>, <<"q", "u", "i", "z", "á", "s">>,
    <<"t", "a", "l", " ", "v", "e", "z">>, <<"s", "e", "g", "ú", "n">>,
    <<"i", "g", "u", "a", "l">>, <<"m", "i", "s", "m", "o">>,
    <<"p", "r", "o", "p", "i", "o">>, <<"t", "a", "m", "p", "o", "c", "o">>,
    <<"n", "i", "n", "g", "ú", "n">>, <<"n", "i", "n", "g", "u", "n", "a">>,
    <<"n", "i", "n", "g", "u", "n", "o">>,
    <<"n", "i", "n", "g", "u", "n", "a", "s">>,
    <<"n", "i", "n", "g", "u", "n", "o", "s">> }

EnglishStopwords ==
  { <<"t", "h", "e">>, <<"i", "s">>, <<"i", "n">>, <<"a", "t">>,
    <<"w", "h", "i", "c", "h">>, <<"o", "n">>, <<"a", "n", "d">>, <<"a">>,
    <<"a", "n">>, <<"o", "f">>, <<"t", "o">>, <<"f", "o", "r">>,
    <<"w", "i", "t", "h">>, <<"t", "h", "a", "t">>, <<"t", "h", "i", "s">>,
    <<"i", "t">>, <<"a", "s">>, <<"b", "y">>, <<"f", "r", "o", "m">>, <<"o", "r">>,
    <<"b", "u", "t">>, <<"b", "e">>, <<"a", "r", "e">>, <<"w", "a", "s">>,
    <<"w", "e", "r", "e">>, <<"h", "a", "s">>, <<"h", "a", "v", "e">>,
    <<"h", "a", "d">>, <<"n", "o", "t">>, <<"c", "a", "n">>, <<"w", "i", "l", "l">>,
    <<"w", "o", "u", "l", "d">>, <<"s", "h", "o", "u", "l", "d">>,
    <<"c", "o", "u", "l", "d">> }

\* Cleaner._default_stopwords
DefaultStopwords(language) ==
  IF language = "es" THEN SpanishStopwords ELSE EnglishStopwords

\* Cleaner.clean_text, for a Cleaner built with the default stopwords.
CleanText(language, text) ==
  LET lowered == Lower(text)
      letters == RemoveSymbols(lowered)
      single  == Strip(CollapseWhitespace(letters))
      words   == SelectSeq(Split(single),
                           LAMBDA w : w \notin DefaultStopwords(language))
  IN  Join(Space, words)

\* Cleaner.clean_diarized_transcript
CleanDiarizedTranscript(language, diarized) ==
  DiarizedTranscript(
    [i \in 1..Len(diarized.segments) |->
       DiarizedSegment(diarized.segments[i].start,
                       diarized.segments[i].end,
                       diarized.segments[i].speaker,
                       CleanText(language, diarized.segments[i].text))],
    CleanText(language, diarized.full_text))

\* The language run passes to Cleaner.
CleanerLanguage(detected) ==
  IF detected \in { "en", "es" } THEN detected ELSE "en"

\* ------------------------------------------------ DiarizedTranscriptBuilder
\* Overlaps with the boundaries included (>= and <=).
OverlapsInclusive(tseg, speaker_segment) ==
  /\ tseg.end >= speaker_segment.start
  /\ tseg.start <= speaker_segment.end

\* Overlaps that also asks both intervals to have a positive length.
OverlapsWithExtent(tseg, speaker_segment) ==
  /\ tseg.start < tseg.end
  /\ speaker_segment.start < speaker_segment.end
  /\ tseg.end > speaker_segment.start
  /\ tseg.start < speaker_segment.end

\* The time-overlap test of merge.
Overlaps(tseg, speaker_segment) ==
  /\ tseg.end > speaker_segment.start
  /\ tseg.start < speaker_segment.end

\* The inner loop of merge: the list texts for one speaker segment.
RECURSIVE CollectTexts(_, _)
CollectTexts(segments, speaker_segment) ==
  IF Len(segments) = 0 THEN <<>>
  ELSE LET rest  == CollectTexts(SubSeq(segments, 1, Len(segments) - 1),
                                 speaker_segment)
           tseg  == segments[Len(segments)]
       IN  IF Overlaps(tseg, speaker_segment)
           THEN Append(rest, tseg.text)
           ELSE rest

\* BuildSegment with start and end taken from the overlapping transcript
\* segments instead of the speaker segment.
BuildSegmentFromTranscript(speaker_segment, ts) ==
  LET ov == SelectSeq(transcript.segments,
                      LAMBDA t : /\ t.end > speaker_segment.start
                                 /\ t.start < speaker_segment.end)
  IN  DiarizedSegment(IF Len(ov) > 0 THEN ov[1].start
                                     ELSE speaker_segment.start,
                      IF Len(ov) > 0 THEN ov[Len(ov)].end
                                     ELSE speaker_segment.end,
                      speaker_segment.speaker, Join(<<" ">>, ts))

\* The DiarizedSegment merge builds for a speaker segment whose texts are ts.
BuildSegment(speaker_segment, ts) ==
  DiarizedSegment(speaker_segment.start, speaker_segment.end,
                  speaker_segment.speaker, Join(Space, ts))

\* AppendIfTexts without the test of texts: every speaker segment is kept.
AppendAlways(out, speaker_segment, ts) ==
  Append(out, BuildSegment(speaker_segment, ts))

\* AppendIfTexts that keeps out ordered by start time.
InsertByStart(out, speaker_segment, ts) ==
  IF Len(ts) > 0
  THEN LET seg    == BuildSegment(speaker_segment, ts)
           before == SelectSeq(out, LAMBDA d : d.start <= seg.start)
           after  == SelectSeq(out, LAMBDA d : d.start > seg.start)
       IN  before \o <<seg>> \o after
  ELSE out

\* What merge does to diarized_segments (here out) after the inner loop.
AppendIfTexts(out, speaker_segment, ts) ==
  IF Len(ts) > 0
  THEN Append(out, BuildSegment(speaker_segment, ts))
  ELSE out

\* full_text recomputed from the texts of the output segments.
FullTextFromSegments(tr, out) ==
  Join(Space, [k \in 1..Len(out) |-> out[k].text])

\* The full_text merge returns (out is diarized_segments).
MergedFullText(tr, out) == tr.full_text

\* ------------------------------------------------------------ MeetingPipeline
NoResults ==
  [transcript |-> [segments |-> <<>>, full_text |-> <<>>],
   diarization |-> [segments |-> <<>>],
   diarized_transcript |-> Unbound,
   detected_language |-> NoneLang,
   cleaned_diarized_transcript |-> Unbound]

Init ==
  /\ pc = "transcribe"
  /\ transcript = [segments |-> <<>>, full_text |-> <<>>]
  /\ diarization_result = [segments |-> <<>>]
  /\ turn = 0
  /\ texts = <<>>
  /\ diarized_segments = <<>>
  /\ diarized_transcript = Unbound
  /\ detected_language = NoneLang
  /\ cleaned_diarized_transcript = Unbound
  /\ results = NoResults

\* run, step 1: the transcriber returns a Transcript.
Transcribe ==
  /\ pc = "transcribe"
  /\ \E t \in Transcript : transcript' = t
  /\ pc' = "diarize"
  /\ UNCHANGED <<diarization_result, turn, texts, diarized_segments,
                 diarized_transcript, detected_language,
                 cleaned_diarized_transcript, results>>

\* run, step 1: the transcriber raises a TranscriptionError; run logs it and
\* raises it again.
TranscribeFails ==
  /\ pc = "transcribe"
  /\ pc' = "raised"
  /\ UNCHANGED <<transcript, diarization_result, turn, texts,
                 diarized_segments, diarized_transcript, detected_language,
                 cleaned_diarized_transcript, results>>

\* run, step 2: the diarizer returns a DiarizationResult; merge is entered.
Diarize ==
  /\ pc = "diarize"
  /\ \E d \in DiarizationResult : diarization_result' = d
  /\ pc' = "merge"
  /\ turn' = 0
  /\ texts' = <<>>
  /\ diarized_segments' = <<>>
  /\ UNCHANGED <<transcript, diarized_transcript, detected_language,
                 cleaned_diarized_transcript, results>>

\* merge: one iteration of the loop over diarization_result.segments.
MergeTurn ==
  /\ pc = "merge"
  /\ turn < Len(diarization_result.segments)
  /\ LET speaker_segment == diarization_result.segments[turn + 1]
         collected == CollectTexts(transcript.segments, speaker_segment)
     IN  /\ texts' = collected
         /\ diarized_segments' =
              AppendIfTexts(diarized_segments, speaker_segment, collected)
  /\ turn' = turn + 1
  /\ UNCHANGED <<pc, transcript, diarization_result, diarized_transcript,
                 detected_language, cleaned_diarized_transcript, results>>

\* merge: the loop is over; merge returns and run binds diarized_transcript.
MergeReturn ==
  /\ pc = "merge"
  /\ turn = Len(diarization_result.segments)
  /\ diarized_transcript' =
       DiarizedTranscript(diarized_segments,
                          MergedFullText(transcript, diarized_segments))
  /\ pc' = "detect"
  /\ UNCHANGED <<transcript, diarization_result, turn, texts,
                 diarized_segments, detected_language,
                 cleaned_diarized_transcript, results>>

\* run, step 4: LanguageDetector.detect_language on the full text.
DetectLanguage ==
  /\ pc = "detect"
  /\ \E lang \in Languages : detected_language' = lang
  /\ pc' = "clean"
  /\ UNCHANGED <<transcript, diarization_result, turn, texts,
                 diarized_segments, diarized_transcript,
                 cleaned_diarized_transcript, results>>

\* A clean_diarized_transcript that cleans its argument in place.
CleanInPlace(language, diarized) ==
  CleanDiarizedTranscript(language, diarized)

\* What clean_diarized_transcript leaves in its argument.
CleanArgumentAfter(language, diarized) == diarized

\* run, step 5: Cleaner(language).clean_diarized_transcript.
Clean ==
  /\ pc = "clean"
  /\ LET language == CleanerLanguage(detected_language)
     IN  /\ cleaned_diarized_transcript' =
              CleanDiarizedTranscript(language, diarized_transcript)
         /\ diarized_transcript' =
              CleanArgumentAfter(language, diarized_transcript)
  /\ pc' = "return"
  /\ UNCHANGED <<transcript, diarization_result, turn, texts,
                 diarized_segments, detected_language, results>>

\* run: the dict of results is returned.
Return ==
  /\ pc = "return"
  /\ results' =
       [transcript |-> transcript,
        diarization |-> diarization_result,
        diarized_transcript |-> diarized_transcript,
        detected_language |-> detected_language,
        cleaned_diarized_transcript |-> cleaned_diarized_transcript]
  /\ pc' = "done"
  /\ UNCHANGED <<transcript, diarization_result, turn, texts,
                 diarized_segments, diarized_transcript, detected_language,
                 cleaned_diarized_transcript>>

Next ==
  \/ Transcribe
  \/ TranscribeFails
  \/ Diarize
  \/ MergeTurn
  \/ MergeReturn
  \/ DetectLanguage
  \/ Clean
  \/ Return

Spec == Init /\ [][Next]_vars

\* ------------------------------------------------------------- properties
\* The strict overlap test, as the specification words it.
StrictlyOverlap(t, s) == t.end > s.start /\ t.start < s.end

\* Indices of the transcript segments that strictly overlap s.
OverlapIdx(s) ==
  { j \in 1..Len(transcript.segments) :
      StrictlyOverlap(transcript.segments[j], s) }

\* Number of occurrences of x in the sequence q.
Occurrences(q, x) == Cardinality({ k \in 1..Len(q) : q[k] = x })

\* Indices of the speaker turns with an overlapping transcript segment, in
\* the order of diarization_result.segments.
ProducingTurns ==
  SelectSeq([i \in 1..Len(diarization_result.segments) |-> i],
            LAMBDA i : OverlapIdx(diarization_result.segments[i]) # {})

\* Texts of the transcript segments overlapping s, in transcript order.
ExpectedPieces(s) ==
  LET ov == SelectSeq(transcript.segments, LAMBDA t : StrictlyOverlap(t, s))
  IN  [k \in 1..Len(ov) |-> ov[k].text]

\* The pieces with exactly one space between consecutive ones.
RECURSIVE SpacedConcat(_)
SpacedConcat(ps) ==
  IF Len(ps) = 0 THEN <<>>
  ELSE IF Len(ps) = 1 THEN ps[1]
  ELSE SpacedConcat(SubSeq(ps, 1, Len(ps) - 1)) \o <<" ">> \o ps[Len(ps)]

\* merge has returned.
Merged == pc \in { "detect", "clean", "return", "done" }

\* Some input segment has start > end.
MalformedInput ==
  \/ \E j \in 1..Len(transcript.segments) :
       transcript.segments[j].start > transcript.segments[j].end
  \/ \E i \in 1..Len(diarization_result.segments) :
       diarization_result.segments[i].start > diarization_result.segments[i].end

\* The speaker turn of the last iteration of merge's loop.
LastTurn == diarization_result.segments[turn]

\* C1: after the iteration of merge for a speaker turn S, the pieces collected
\* for S are, text by text and with multiplicity, the texts of the transcript
\* segments T with T.end > S.start and T.start < S.end: a T contributes a
\* piece if and only if it strictly overlaps S.
C1_OverlapCorrectness ==
  turn >= 1 =>
    \A x \in Texts :
      Occurrences(texts, x) =
        Cardinality({ j \in OverlapIdx(LastTurn) :
                        transcript.segments[j].text = x })

\* C1 witness: a turn with one overlapping transcript segment and one that
\* only touches it at a boundary, whose text is not among the pieces.
C1_Witness ==
  /\ turn >= 1
  /\ LastTurn.start < LastTurn.end
  /\ Len(texts) = 1
  /\ \E j \in 1..Len(transcript.segments) :
       LET t == transcript.segments[j]
       IN  /\ t.start < t.end
           /\ t.end = LastTurn.start
           /\ t.text # texts[1]

\* C2: the full_text of the DiarizedTranscript merge returned is the
\* transcript's full_text, whatever the segments are.
C2_FullTextPassThrough ==
  Merged => diarized_transcript.full_text = transcript.full_text

\* C2 witness: merge returned segments whose joined texts differ from the
\* non-empty full_text that was passed through.
C2_Witness ==
  /\ pc = "detect"
  /\ transcript.full_text # <<>>
  /\ Len(diarized_transcript.segments) > 0
  /\ SpacedConcat([k \in 1..Len(diarized_transcript.segments) |->
                     diarized_transcript.segments[k].text])
       # diarized_transcript.full_text

\* C3: a speaker turn yields an output segment if and only if a transcript
\* segment overlaps it: after each iteration the number of output segments is
\* the number of turns iterated that have an overlap; so the output is no
\* longer than the turn list, as long exactly when every turn has an overlap,
\* and empty when either input list is empty.
C3_NoSilentSpeaker ==
  /\ Len(diarized_segments) =
       Cardinality({ i \in 1..turn :
                       OverlapIdx(diarization_result.segments[i]) # {} })
  /\ Merged =>
       LET out   == diarized_transcript.segments
           turns == diarization_result.segments
       IN  /\ Len(out) <= Len(turns)
           /\ Len(out) = Len(turns) <=>
                \A i \in 1..Len(turns) : OverlapIdx(turns[i]) # {}
           /\ (Len(turns) = 0 \/ Len(transcript.segments) = 0) =>
                out = <<>>

\* C3 witness: of two speaker turns one is kept and one is dropped.
C3_Witness ==
  /\ Merged
  /\ Len(diarization_result.segments) = 2
  /\ Len(transcript.segments) > 0
  /\ Len(diarized_transcript.segments) = 1

\* C4: the output segments are the speaker turns that have an overlap, in
\* the order of diarization_result.segments, one output segment per such
\* turn (duplicates included).
C4_OrderPreservation ==
  Merged =>
    LET out == diarized_transcript.segments
        P   == ProducingTurns
    IN  /\ Len(out) = Len(P)
        /\ \A k \in 1..Len(P) :
             LET s == diarization_result.segments[P[k]]
             IN  /\ out[k].start = s.start
                 /\ out[k].end = s.end
                 /\ out[k].speaker = s.speaker

\* C4 witness: two output segments that are not in time order.
C4_Witness ==
  /\ Merged
  /\ Len(diarized_transcript.segments) = 2
  /\ diarized_transcript.segments[1].start
       > diarized_transcript.segments[2].start

\* C5: when an input segment has start > end, merge returns nothing.
C5_InvalidInputRejected == MalformedInput => ~Merged

\* C6: no segment merge emits has an empty text.
C6_NoEmptyText ==
  \A k \in 1..Len(diarized_segments) : diarized_segments[k].text # <<>>

\* C7: the output segment built for a speaker turn has the start, the end
\* and the speaker of that turn.
C7_TurnFieldsCopied ==
  (turn >= 1 /\ Len(texts) > 0) =>
    LET d == diarized_segments[Len(diarized_segments)]
    IN  /\ d.start = LastTurn.start
        /\ d.end = LastTurn.end
        /\ d.speaker = LastTurn.speaker

\* C7 witness: an output segment whose turn starts before and ends after
\* every transcript segment overlapping it.
C7_Witness ==
  /\ turn >= 1
  /\ Len(texts) > 0
  /\ \A j \in OverlapIdx(LastTurn) :
       /\ LastTurn.start < transcript.segments[j].start
       /\ transcript.segments[j].end < LastTurn.end

\* C8: the text of the output segment of each speaker turn with an overlap
\* is the full texts of the overlapping transcript segments, in transcript
\* order, with exactly one space between consecutive texts.
C8_TextIsSpacedConcat ==
  Merged =>
    LET out == diarized_transcript.segments
        P   == ProducingTurns
    IN  \A k \in 1..Len(P) :
          /\ k <= Len(out)
          /\ out[k].text =
               SpacedConcat(ExpectedPieces(diarization_result.segments[P[k]]))

\* C8 witness: two transcript segments that are not in time order, with
\* different non-empty texts, both joined into the segments of two turns.
C8_Witness ==
  /\ Merged
  /\ Len(diarized_transcript.segments) = 2
  /\ Len(transcript.segments) = 2
  /\ transcript.segments[1].start > transcript.segments[2].start
  /\ transcript.segments[1].text # transcript.segments[2].text
  /\ transcript.segments[1].text # <<>>
  /\ transcript.segments[2].text # <<>>
  /\ \A i \in 1..2 : Cardinality(OverlapIdx(diarization_result.segments[i])) = 2

\* C9 as stated: a zero-length speaker turn collects no piece, and every
\* piece collected is the text of a transcript segment that is not
\* zero-length (a zero-length one never contributes).
C9_ZeroLengthNeverOverlaps ==
  turn >= 1 =>
    /\ LastTurn.start = LastTurn.end => texts = <<>>
    /\ \A x \in Texts :
         Occurrences(texts, x) <=
           Cardinality({ j \in 1..Len(transcript.segments) :
                           /\ transcript.segments[j].text = x
                           /\ transcript.segments[j].start
                                # transcript.segments[j].end })

\* Transcript segments of zero length whose instant lies strictly inside s.
ZeroInside(s) ==
  { j \in 1..Len(transcript.segments) :
      /\ transcript.segments[j].start = transcript.segments[j].end
      /\ s.start < transcript.segments[j].start
      /\ transcript.segments[j].start < s.end }

\* C9 amended: a zero-length interval at instant t overlaps exactly the
\* intervals with start < t < end.  A zero-length speaker turn collects the
\* texts of the transcript segments strictly containing its instant; a
\* zero-length transcript segment contributes its text to a turn when its
\* instant is strictly inside the turn, and otherwise a piece is the text of
\* a transcript segment that is not zero-length or of another zero-length
\* one strictly inside the turn.
C9_ZeroLengthOverlapsIffInside ==
  turn >= 1 =>
    /\ LastTurn.start = LastTurn.end =>
         \A x \in Texts :
           Occurrences(texts, x) =
             Cardinality({ j \in 1..Len(transcript.segments) :
                             /\ transcript.segments[j].text = x
                             /\ transcript.segments[j].start < LastTurn.start
                             /\ LastTurn.start < transcript.segments[j].end })
    /\ \A x \in Texts :
         LET zin == { j \in ZeroInside(LastTurn) :
                        transcript.segments[j].text = x }
             ext == { j \in 1..Len(transcript.segments) :
                        /\ transcript.segments[j].text = x
                        /\ transcript.segments[j].start
                             # transcript.segments[j].end }
         IN  /\ Occurrences(texts, x) >= Cardinality(zin)
             /\ Occurrences(texts, x) <= Cardinality(zin) + Cardinality(ext)

\* C9 witness: a zero-length speaker turn strictly inside a transcript
\* segment has produced an output segment.
C9_Witness ==
  /\ turn >= 1
  /\ LastTurn.start = LastTurn.end
  /\ Len(texts) > 0
  /\ diarized_segments[Len(diarized_segments)].start = LastTurn.start
  /\ diarized_segments[Len(diarized_segments)].end = LastTurn.start

\* C10: cleaning leaves the merged transcript as merge returned it: once
\* clean_diarized_transcript has run, and in the results of run,
\* diarized_transcript is still the segments and full_text of merge, and the
\* cleaned transcript has as many segments, in the same order, with the same
\* start, end and speaker.
C10_CleanLeavesMergedTranscript ==
  /\ pc \in { "return", "done" } =>
       /\ diarized_transcript =
            DiarizedTranscript(diarized_segments, transcript.full_text)
       /\ Len(cleaned_diarized_transcript.segments)
            = Len(diarized_transcript.segments)
       /\ \A k \in 1..Len(diarized_segments) :
            LET c == cleaned_diarized_transcript.segments[k]
                d == diarized_segments[k]
            IN  c.start = d.start /\ c.end = d.end /\ c.speaker = d.speaker
  /\ pc = "done" =>
       /\ results.diarized_transcript =
            DiarizedTranscript(diarized_segments, transcript.full_text)
       /\ results.cleaned_diarized_transcript = cleaned_diarized_transcript

\* C10 witness: run returned a cleaned transcript whose texts and full_text
\* differ from those of the merged transcript.
C10_Witness ==
  /\ pc = "done"
  /\ Len(results.diarized_transcript.segments) = 2
  /\ \A k \in 1..2 :
       results.cleaned_diarized_transcript.segments[k].text
         # results.diarized_transcript.segments[k].text
  /\ results.cleaned_diarized_transcript.full_text
       # results.diarized_transcript.full_text

====
